---- MODULE Spec2Model ----
(***************************************************************************)
(* Model of normalising.py: a script that takes a table of taxi trips      *)
(* (pickup and dropoff latitude/longitude in degrees) and adds feature     *)
(* columns in four stages: haversine distance, UTM projection, sin/cos     *)
(* encoding and min-max scaling, then selects the columns of the final     *)
(* output.                                                                 *)
(*                                                                         *)
(* Arithmetic.  Python floats are modelled exactly on a grid: every finite *)
(* coordinate is a multiple of 60 degrees, for which the trigonometric     *)
(* terms of the haversine formula are multiples of 1/2 and 1/4; radians,   *)
(* np.sin and np.cos are tabulated in thousandths; a min-max scaled value  *)
(* is the exact fraction <<numerator, denominator>> in lowest terms.       *)
(* Rounding of IEEE doubles is not modelled.  The non-finite floats are    *)
(* the three values NaN, Inf and NegInf.                                   *)
(***************************************************************************)
EXTENDS Integers, Sequences, FiniteSets, TLC

VARIABLES
    pc,             \* the statement the script is at
    trip_data,      \* the input dict of columns (line 30)
    my_data_table,  \* the DataFrame: column name -> sequence of row values
    final_output,   \* the column selection of line 150
    exception,      \* the exception that ended the script, or "none"
    ran,            \* history: how many times each stage has executed
    reads           \* history: the columns each stage has read

vars == <<pc, trip_data, my_data_table, final_output, exception, ran, reads>>

----------------------------------------------------------------------------
(* Bounds of the model *)

MaxTrips == 3

----------------------------------------------------------------------------
(* Float values *)

NaN == 1001
Inf == 1000
NegInf == -1000

NonFinite == {NaN, Inf, NegInf}

IsFinite(v) == v \notin NonFinite

\* IEEE subtraction a - b on finite grid values and the non-finite floats.
FSub(a, b) ==
    IF a = NaN \/ b = NaN THEN NaN
    ELSE IF a \in {Inf, NegInf} /\ a = b THEN NaN
    ELSE IF a \in {Inf, NegInf} THEN a
    ELSE IF b = Inf THEN NegInf
    ELSE IF b = NegInf THEN Inf
    ELSE a - b

----------------------------------------------------------------------------
(* Trigonometry on the grid of multiples of 60 degrees *)

\* 2 * cos(d degrees), d a multiple of 60.
Cos2(d) ==
    CASE d % 360 = 0   -> 2
      [] d % 360 = 60  -> 1
      [] d % 360 = 120 -> -1
      [] d % 360 = 180 -> -2
      [] d % 360 = 240 -> -1
      [] d % 360 = 300 -> 1

\* 4 * sin(h degrees)**2, h a multiple of 30.
SinSq4(h) ==
    CASE h % 180 = 0   -> 0
      [] h % 180 = 30  -> 1
      [] h % 180 = 60  -> 3
      [] h % 180 = 90  -> 4
      [] h % 180 = 120 -> 3
      [] h % 180 = 150 -> 1

\* 1000 * 2 * asin(sqrt(a16 / 16)), rounded, for a16 in 0..16.
TwoAsinSqrtMilli(a16) ==
    <<0, 505, 723, 896, 1047, 1186, 1318, 1445, 1571,
      1696, 1823, 1955, 2094, 2246, 2419, 2636, 3142>>[a16 + 1]

\* 1000 * radians(d), rounded (np.deg2rad), d a multiple of 60 in -180..180.
Deg2RadMilli(d) ==
    CASE d = 0 -> 0
      [] d = 60 -> 1047   [] d = -60 -> -1047
      [] d = 120 -> 2094  [] d = -120 -> -2094
      [] d = 180 -> 3142  [] d = -180 -> -3142

\* 1000 * np.sin(r), rounded, r the thousandths of radians of a grid angle.
NpSinMilli(r) ==
    CASE r = 0 -> 0
      [] r = 1047 -> 866   [] r = -1047 -> -866
      [] r = 2094 -> 866   [] r = -2094 -> -866
      [] r = 3142 -> 0     [] r = -3142 -> 0

\* 1000 * np.cos(r), rounded.
NpCosMilli(r) ==
    CASE r = 0 -> 1000
      [] r = 1047 -> 500   [] r = -1047 -> 500
      [] r = 2094 -> -500  [] r = -2094 -> -500
      [] r = 3142 -> -1000 [] r = -3142 -> -1000

----------------------------------------------------------------------------
(* Method 1: haversine distance (lines 46-65) *)

Earth_Radius_km == 6371

Returned(v) == [raised |-> "none", value |-> v]
Raised(e) == [raised |-> e, value |-> 0]

\* Mutant of calculate_haversine_distance: cos(lat1_rad) taken twice on line
\* 61 in place of cos(lat1_rad) * cos(lat2_rad).
calculate_haversine_distance_Lat1Twice(lat1, lon1, lat2, lon2) ==
    LET dlon == FSub(lon2, lon1)
        dlat == FSub(lat2, lat1)
        trigArgs == {dlat, lat1, lat2, dlon}
    IN  IF trigArgs \cap {Inf, NegInf} # {}
        THEN Raised("ValueError")
        ELSE IF NaN \in trigArgs
        THEN Returned(NaN)
        ELSE LET a16 == 4 * SinSq4(dlat \div 2)
                        + Cos2(lat1) * Cos2(lat1) * SinSq4(dlon \div 2)
                 c == TwoAsinSqrtMilli(a16)
             IN  Returned((Earth_Radius_km * c) \div 1000)

calculate_haversine_distance(lat1, lon1, lat2, lon2) ==
    LET dlon == FSub(lon2, lon1)
        dlat == FSub(lat2, lat1)
        \* the arguments of sin and cos on line 61, up to halving
        trigArgs == {dlat, lat1, lat2, dlon}
    IN  IF trigArgs \cap {Inf, NegInf} # {}
        THEN Raised("ValueError")       \* math.sin / math.cos of an infinity
        ELSE IF NaN \in trigArgs
        THEN Returned(NaN)
        ELSE LET a16 == 4 * SinSq4(dlat \div 2)
                        + Cos2(lat1) * Cos2(lat2) * SinSq4(dlon \div 2)
                 c == TwoAsinSqrtMilli(a16)
             IN  Returned((Earth_Radius_km * c) \div 1000)

----------------------------------------------------------------------------
(* The DataFrame: a function from column names to equally long sequences *)

NumRows(t) == Len(t["trip_id"])

\* df[c] = v: adds the column, or overwrites it when it exists.
SetColumn(t, c, v) ==
    [k \in DOMAIN t \cup {c} |-> IF k = c THEN v ELSE t[k]]

\* df[[c1, c2, ...]]: the selection of the listed columns.
SelectColumns(t, cols) == [k \in cols |-> t[k]]

InputColumns ==
    {"trip_id", "pickup_lat", "pickup_lon", "dropoff_lat", "dropoff_lon"}

\* pd.DataFrame(trip_data) for a batch given as a sequence of trips.
DataFrame(batch) ==
    [k \in InputColumns |->
        [i \in 1..Len(batch) |-> IF k = "trip_id" THEN i ELSE batch[i][k]]]

----------------------------------------------------------------------------
(* Step 3: the distance of every row (lines 69-75) *)

RowDistance(t, i) ==
    calculate_haversine_distance(t["pickup_lat"][i], t["pickup_lon"][i],
                                 t["dropoff_lat"][i], t["dropoff_lon"][i])

\* The rows on which the lambda raises.
RaisingRows(t) == {i \in 1..NumRows(t) : RowDistance(t, i).raised # "none"}

AddDistance(t) ==
    SetColumn(t, "distance_km", [i \in 1..NumRows(t) |-> RowDistance(t, i).value])

----------------------------------------------------------------------------
(* Step 4: projection to UTM zone 18N (lines 89-99) *)

\* Point(xy) for xy in zip(pickup_lon, pickup_lat)
geometry_list(t) ==
    [i \in 1..NumRows(t) |-> <<t["pickup_lon"][i], t["pickup_lat"][i]>>]

\* to_crs(epsg=32618) of one point: the external CRS engine, abstracted to a
\* function of the point alone: easting from the central meridian (75 W) with
\* false easting 500000 m, shrinking with cos(lat); northing linear in lat.
to_crs(point) ==
    LET lon == point[1]
        lat == point[2]
    IN  <<500000 + (111320 * Cos2(lat) * (lon + 75)) \div 2, 110574 * lat>>

\* Mutant of projected_data: the projected points come back in reverse order.
projected_data_Reversed(t) ==
    [i \in 1..NumRows(t) |-> to_crs(geometry_list(t)[NumRows(t) + 1 - i])]

\* Mutant of projected_data: coordinates relative to the first point of the
\* batch instead of absolute ones.
projected_data_RelativeToFirst(t) ==
    [i \in 1..NumRows(t) |->
        <<to_crs(geometry_list(t)[i])[1] - to_crs(geometry_list(t)[1])[1],
          to_crs(geometry_list(t)[i])[2] - to_crs(geometry_list(t)[1])[2]>>]

projected_data(t) == [i \in 1..NumRows(t) |-> to_crs(geometry_list(t)[i])]

PlanarProject(t) ==
    LET p == projected_data(t)
        withX == SetColumn(t, "pickup_x_meters", [i \in 1..NumRows(t) |-> p[i][1]])
    IN  SetColumn(withX, "pickup_y_meters", [i \in 1..NumRows(t) |-> p[i][2]])

----------------------------------------------------------------------------
(* Step 5: sin/cos encoding (lines 113-120) *)

\* np.deg2rad / np.sin / np.cos of a whole column.
deg2rad(col) == [i \in 1..Len(col) |-> Deg2RadMilli(col[i])]
np_sin(col) == [i \in 1..Len(col) |-> NpSinMilli(col[i])]
np_cos(col) == [i \in 1..Len(col) |-> NpCosMilli(col[i])]

\* Mutant of SphericalEncode: the radians written over the degree columns
\* instead of into lon_rad and lat_rad.
SphericalEncode_InPlace(t) ==
    LET t1 == SetColumn(t, "pickup_lon", deg2rad(t["pickup_lon"]))
        t2 == SetColumn(t1, "pickup_lat", deg2rad(t1["pickup_lat"]))
        t3 == SetColumn(t2, "pickup_lon_sin", np_sin(t2["pickup_lon"]))
        t4 == SetColumn(t3, "pickup_lon_cos", np_cos(t3["pickup_lon"]))
        t5 == SetColumn(t4, "pickup_lat_sin", np_sin(t4["pickup_lat"]))
    IN  SetColumn(t5, "pickup_lat_cos", np_cos(t5["pickup_lat"]))

SphericalEncode(t) ==
    LET t1 == SetColumn(t, "lon_rad", deg2rad(t["pickup_lon"]))
        t2 == SetColumn(t1, "lat_rad", deg2rad(t1["pickup_lat"]))
        t3 == SetColumn(t2, "pickup_lon_sin", np_sin(t2["lon_rad"]))
        t4 == SetColumn(t3, "pickup_lon_cos", np_cos(t3["lon_rad"]))
        t5 == SetColumn(t4, "pickup_lat_sin", np_sin(t4["lat_rad"]))
    IN  SetColumn(t5, "pickup_lat_cos", np_cos(t5["lat_rad"]))

----------------------------------------------------------------------------
(* Step 6: min-max scaling (lines 134-139) *)

RECURSIVE GCD(_, _)
GCD(a, b) == IF b = 0 THEN a ELSE GCD(b, a % b)

\* The fraction n/d (n >= 0, d > 0) in lowest terms.
Frac(n, d) == <<n \div GCD(n, d), d \div GCD(n, d)>>

ColMin(col) == CHOOSE m \in {col[i] : i \in 1..Len(col)} :
                   \A i \in 1..Len(col) : m <= col[i]
ColMax(col) == CHOOSE m \in {col[i] : i \in 1..Len(col)} :
                   \A i \in 1..Len(col) : m >= col[i]

\* Mutant of fit: the first row taken for the minimum.
fit_FirstRowAsMin(col) == [data_min |-> col[1], data_max |-> ColMax(col)]

\* MinMaxScaler().fit: the bounds of the batch presented to it.
fit(col) == [data_min |-> ColMin(col), data_max |-> ColMax(col)]

\* Mutant of transform: no guard for a zero range, so that numpy's 0/0 gives
\* NaN in every row of the column.
transform_Unguarded(col, state) ==
    LET data_range == state.data_max - state.data_min
    IN  [i \in 1..Len(col) |->
            IF data_range = 0 THEN <<NaN, 1>>
            ELSE Frac(col[i] - state.data_min, data_range)]

\* MinMaxScaler().transform of one column: (x - min) / (max - min); a column
\* of zero range is scaled by 1 instead, which leaves (x - min) = 0.
transform(col, state) ==
    LET data_range == state.data_max - state.data_min
        divisor == IF data_range = 0 THEN 1 ELSE data_range
    IN  [i \in 1..Len(col) |-> Frac(col[i] - state.data_min, divisor)]

fit_transform(col) == transform(col, fit(col))

MinMaxScale(t) ==
    LET withX == SetColumn(t, "pickup_x_scaled", fit_transform(t["pickup_x_meters"]))
    IN  SetColumn(withX, "pickup_y_scaled", fit_transform(t["pickup_y_meters"]))

----------------------------------------------------------------------------
(* Step 7: the columns of the final output (lines 150-157) *)

FinalColumns ==
    {"trip_id", "pickup_lat", "pickup_lon", "distance_km",
     "pickup_x_meters", "pickup_y_meters",
     "pickup_lon_sin", "pickup_lon_cos",
     "pickup_x_scaled", "pickup_y_scaled"}

----------------------------------------------------------------------------
(* The script *)

Stages == {"haversine", "project", "encode", "scale"}

\* The columns each stage reads and writes.
StageReads(s) ==
    CASE s = "haversine" -> {"pickup_lat", "pickup_lon", "dropoff_lat", "dropoff_lon"}
      [] s = "project"   -> {"pickup_lon", "pickup_lat"}
      [] s = "encode"    -> {"pickup_lon", "pickup_lat", "lon_rad", "lat_rad"}
      [] s = "scale"     -> {"pickup_x_meters", "pickup_y_meters"}

StageWrites(s) ==
    CASE s = "haversine" -> {"distance_km"}
      [] s = "project"   -> {"pickup_x_meters", "pickup_y_meters"}
      [] s = "encode"    -> {"lon_rad", "lat_rad", "pickup_lon_sin", "pickup_lon_cos",
                             "pickup_lat_sin", "pickup_lat_cos"}
      [] s = "scale"     -> {"pickup_x_scaled", "pickup_y_scaled"}

\* The trips of the batches of the pipeline: pickups on the grid, and a
\* pickup latitude that may be infinite.
PickupLats == {0, 60, Inf}
PickupLons == {-120, -60}
DropoffLats == {0}
DropoffLons == {-60, 0}

Trips == [pickup_lat : PickupLats, pickup_lon : PickupLons,
          dropoff_lat : DropoffLats, dropoff_lon : DropoffLons]

Batches == UNION {[1..n -> Trips] : n \in 1..MaxTrips}

Start(batch) ==
    /\ trip_data = DataFrame(batch)
    /\ my_data_table = DataFrame(batch)
    /\ final_output = <<>>
    /\ pc = "haversine"
    /\ exception = "none"
    /\ ran = [s \in Stages |-> 0]
    /\ reads = [s \in Stages |-> {}]

Init == \E batch \in Batches : Start(batch)

Executes(s) ==
    /\ ran' = [ran EXCEPT ![s] = @ + 1]
    /\ reads' = [reads EXCEPT ![s] = @ \cup StageReads(s)]

\* Lines 69-75: apply runs the lambda row by row; the first row on which it
\* raises ends the script with that exception.
HaversineStage ==
    /\ pc = "haversine"
    /\ Executes("haversine")
    /\ IF RaisingRows(my_data_table) # {}
       THEN /\ pc' = "crashed"
            /\ exception' = "ValueError"
            /\ UNCHANGED my_data_table
       ELSE /\ pc' = "project"
            /\ my_data_table' = AddDistance(my_data_table)
            /\ UNCHANGED exception
    /\ UNCHANGED <<trip_data, final_output>>

\* Lines 89-99.
ProjectStage ==
    /\ pc = "project"
    /\ Executes("project")
    /\ my_data_table' = PlanarProject(my_data_table)
    /\ pc' = "encode"
    /\ UNCHANGED <<trip_data, final_output, exception>>

\* Lines 113-120.
EncodeStage ==
    /\ pc = "encode"
    /\ Executes("encode")
    /\ my_data_table' = SphericalEncode(my_data_table)
    /\ pc' = "scale"
    /\ UNCHANGED <<trip_data, final_output, exception>>

\* Lines 134-139.
ScaleStage ==
    /\ pc = "scale"
    /\ Executes("scale")
    /\ my_data_table' = MinMaxScale(my_data_table)
    /\ pc' = "output"
    /\ UNCHANGED <<trip_data, final_output, exception>>

\* Lines 150-159.
FinalOutput ==
    /\ pc = "output"
    /\ final_output' = SelectColumns(my_data_table, FinalColumns)
    /\ pc' = "done"
    /\ UNCHANGED <<trip_data, my_data_table, exception, ran, reads>>

Next ==
    \/ HaversineStage
    \/ ProjectStage
    \/ EncodeStage
    \/ ScaleStage
    \/ FinalOutput

Spec == Init /\ [][Next]_vars

\* The script runs to its end: no statement waits for anything.
FairSpec == Spec /\ WF_vars(Next)

----------------------------------------------------------------------------
(* The haversine function alone, on single trips whose coordinates range   *)
(* over valid, out-of-range and non-finite values.                         *)

HavLats == {-60, 0, 60, 120, NaN, Inf}
HavLons == {-120, 0, 180, 240, NaN, Inf}

HavTrips == [pickup_lat : HavLats, pickup_lon : HavLons,
             dropoff_lat : HavLats, dropoff_lon : HavLons]

HavInit == \E trip \in HavTrips : Start(<<trip>>)

HavNext == HaversineStage

HavSpec == HavInit /\ [][HavNext]_vars

----------------------------------------------------------------------------
(* Properties of the Range Scaler *)

\* The state after line 139: the scaled columns are in the table.
Scaled == pc \in {"output", "done"}

\* The two dimensions of the scaler: <<input column, output column>>.
Dimensions == {<<"pickup_x_meters", "pickup_x_scaled">>,
               <<"pickup_y_meters", "pickup_y_scaled">>}

NonDegenerate(col) == \E i, j \in 1..Len(col) : col[i] # col[j]

IsMinOf(col, i) == \A j \in 1..Len(col) : col[i] <= col[j]
IsMaxOf(col, i) == \A j \in 1..Len(col) : col[i] >= col[j]

C2_DegenerateScaleIsZero ==
    /\ pc = "scale" => ENABLED ScaleStage
    /\ pc = "output" => ENABLED FinalOutput
    /\ Scaled =>
           /\ exception = "none"
           /\ \A dim \in Dimensions :
                  LET col == my_data_table[dim[1]]
                      out == my_data_table[dim[2]]
                  IN  ~NonDegenerate(col) =>
                          \A i \in 1..Len(col) : out[i] = <<0, 1>>

\* Witness of C2: a completed run of three trips with one pickup location.
C2_Witness ==
    /\ pc = "done"
    /\ NumRows(my_data_table) = 3
    /\ ~NonDegenerate(my_data_table["pickup_x_meters"])
    /\ ~NonDegenerate(my_data_table["pickup_y_meters"])
    /\ my_data_table["pickup_x_scaled"] = <<(<<0, 1>>), (<<0, 1>>), (<<0, 1>>)>>

----------------------------------------------------------------------------
(* Properties of the input validation *)

ValidLat(v) == IsFinite(v) /\ -90 <= v /\ v <= 90
ValidLon(v) == IsFinite(v) /\ -180 <= v /\ v <= 180

\* Row i of the input holds two valid coordinate pairs.
ValidRow(i) ==
    /\ ValidLat(trip_data["pickup_lat"][i])
    /\ ValidLon(trip_data["pickup_lon"][i])
    /\ ValidLat(trip_data["dropoff_lat"][i])
    /\ ValidLon(trip_data["dropoff_lon"][i])

InputRows == 1..NumRows(trip_data)

\* C3: once the haversine function has been called on a trip with a latitude
\* outside [-90,90], a longitude outside [-180,180] or a non-finite argument,
\* it has failed with InvalidCoordinate and returned no distance.
C3_InvalidCoordinateRejected ==
    pc # "haversine" =>
        \A i \in InputRows :
            ~ValidRow(i) =>
                /\ exception = "InvalidCoordinate"
                /\ "distance_km" \notin DOMAIN my_data_table

\* C8: the distance of a valid trip equals the distance computed with pickup
\* and dropoff exchanged.
C8_HaversineSymmetric ==
    pc = "project" =>
        \A i \in InputRows :
            ValidRow(i) =>
                LET back == calculate_haversine_distance(
                                trip_data["dropoff_lat"][i], trip_data["dropoff_lon"][i],
                                trip_data["pickup_lat"][i], trip_data["pickup_lon"][i])
                IN  /\ back.raised = "none"
                    /\ back.value = my_data_table["distance_km"][i]

\* Witness of C8: a distance computed for a valid trip whose two points
\* differ in latitude and in longitude.
C8_Witness ==
    /\ pc = "project"
    /\ ValidRow(1)
    /\ trip_data["pickup_lat"][1] # trip_data["dropoff_lat"][1]
    /\ trip_data["pickup_lon"][1] # trip_data["dropoff_lon"][1]
    /\ my_data_table["distance_km"][1] > 0

\* C7: a batch with an invalid row is not aborted: the script never stops
\* on the bad row, and when it has stopped it has completed with the
\* feature columns in the table.
C7_BadRowDoesNotAbort ==
    (\E i \in InputRows : ~ValidRow(i)) =>
        /\ pc # "crashed"
        /\ exception = "none"
        /\ pc = "done" =>
               UNION {StageWrites(s) : s \in Stages} \subseteq DOMAIN my_data_table

----------------------------------------------------------------------------
(* Properties of the table *)

RequiredOutputFields ==
    {"trip_id", "distance_km", "pickup_x_meters", "pickup_y_meters",
     "pickup_lon_sin", "pickup_lon_cos", "pickup_lat_sin", "pickup_lat_cos",
     "pickup_x_scaled", "pickup_y_scaled"}

\* C4: when the pipeline has completed, the final output exposes all ten
\* required fields.
C4_FinalOutputHasAllFields ==
    pc = "done" => RequiredOutputFields \subseteq DOMAIN final_output

\* C5: every step leaves the input unchanged and keeps every column of the
\* table with its value: a stage only adds columns.
C5_Additive ==
    [][/\ trip_data' = trip_data
       /\ \A c \in DOMAIN my_data_table :
              /\ c \in DOMAIN my_data_table'
              /\ my_data_table'[c] = my_data_table[c]]_vars

\* Witness of C5: a completed run, the table holding the input columns and
\* the columns of all four stages, the inputs as they were given.
C5_Witness ==
    /\ pc = "done"
    /\ DOMAIN my_data_table
           = InputColumns \cup UNION {StageWrites(s) : s \in Stages}
    /\ \A c \in InputColumns : my_data_table[c] = trip_data[c]

----------------------------------------------------------------------------
(* Properties of the rows *)

\* The table the four stages make of a batch that raises on no row.
Pipeline(batch) ==
    MinMaxScale(SphericalEncode(PlanarProject(AddDistance(DataFrame(batch)))))

\* The trip in row i of the input.
TripOf(i) == [k \in InputColumns \ {"trip_id"} |-> trip_data[k][i]]

\* The trips on which the haversine function returns.
ReturningTrips == {u \in Trips : RaisingRows(DataFrame(<<u>>)) = {}}

\* The batches of one or two trips that hold trip u: alone, followed by any
\* other trip, or following it.
BatchesWith(u) ==
    {<<u>>} \cup {<<u, v>> : v \in ReturningTrips} \cup {<<v, u>> : v \in ReturningTrips}

\* The columns whose values are computed row by row, and those of the scaler.
RowFeatures ==
    StageWrites("haversine") \cup StageWrites("project") \cup StageWrites("encode")

ScaledFeatures == StageWrites("scale")

\* C6 as stated: every feature of a trip, the scaled ones included, is the
\* same in every other batch that holds a trip with the same coordinates.
C6_RowsIndependent ==
    pc = "done" =>
        \A i \in InputRows :
            \A other \in BatchesWith(TripOf(i)) :
                \A j \in 1..Len(other) :
                    other[j] = TripOf(i) =>
                        \A c \in RowFeatures \cup ScaledFeatures :
                            Pipeline(other)[c][j] = my_data_table[c][i]

\* C6 as amended: the features of the haversine, projection and sin/cos
\* stages of a trip are the same in every other batch that holds a trip with
\* the same coordinates; a scaled value is the same in every such batch whose
\* projected column has the same minimum and maximum.
C6_RowwiseExceptScaler ==
    pc = "done" =>
        \A i \in InputRows :
            \A other \in BatchesWith(TripOf(i)) :
                \A j \in 1..Len(other) :
                    other[j] = TripOf(i) =>
                        /\ \A c \in RowFeatures :
                               Pipeline(other)[c][j] = my_data_table[c][i]
                        /\ \A dim \in Dimensions :
                               fit(Pipeline(other)[dim[1]]) = fit(my_data_table[dim[1]])
                                   => Pipeline(other)[dim[2]][j] = my_data_table[dim[2]][i]

\* Witness of C6: a completed batch of three trips, the first scaled to a
\* value other than 0 in x, which is what the scaler gives that trip alone.
C6_Witness ==
    /\ pc = "done"
    /\ NumRows(my_data_table) = 3
    /\ my_data_table["pickup_x_scaled"][1] # <<0, 1>>
    /\ Pipeline(<<TripOf(1)>>)["pickup_x_scaled"][1] = <<0, 1>>
    /\ Pipeline(<<TripOf(1)>>)["pickup_x_meters"][1]
           = my_data_table["pickup_x_meters"][1]

\* The projection of the pickup of input row i.
ProjectedInput(i) ==
    to_crs(<<trip_data["pickup_lon"][i], trip_data["pickup_lat"][i]>>)

\* (value - min) / (max - min) of input row i in dimension d (1 for x, 2 for
\* y) of the projected inputs, 0 when all rows agree.
ScaledInput(i, d) ==
    LET lo == CHOOSE k \in InputRows :
                  \A m \in InputRows : ProjectedInput(k)[d] <= ProjectedInput(m)[d]
        hi == CHOOSE k \in InputRows :
                  \A m \in InputRows : ProjectedInput(k)[d] >= ProjectedInput(m)[d]
        span == ProjectedInput(hi)[d] - ProjectedInput(lo)[d]
    IN  IF span = 0 THEN <<0, 1>>
        ELSE Frac(ProjectedInput(i)[d] - ProjectedInput(lo)[d], span)

Has(c) == c \in DOMAIN my_data_table

\* C9: after every stage, row i of the table carries the trip_id and the
\* coordinates of input trip i, and every feature in row i is the one
\* computed from the coordinates of input trip i.
C9_OrderPreserved ==
    /\ \A c \in InputColumns : my_data_table[c] = trip_data[c]
    /\ \A c \in DOMAIN my_data_table : Len(my_data_table[c]) = NumRows(trip_data)
    /\ \A i \in InputRows :
           /\ Has("distance_km") =>
                  my_data_table["distance_km"][i]
                      = calculate_haversine_distance(
                            trip_data["pickup_lat"][i], trip_data["pickup_lon"][i],
                            trip_data["dropoff_lat"][i], trip_data["dropoff_lon"][i]).value
           /\ Has("pickup_x_meters") =>
                  my_data_table["pickup_x_meters"][i] = ProjectedInput(i)[1]
           /\ Has("pickup_y_meters") =>
                  my_data_table["pickup_y_meters"][i] = ProjectedInput(i)[2]
           /\ Has("pickup_lon_sin") =>
                  my_data_table["pickup_lon_sin"][i]
                      = NpSinMilli(Deg2RadMilli(trip_data["pickup_lon"][i]))
           /\ Has("pickup_lon_cos") =>
                  my_data_table["pickup_lon_cos"][i]
                      = NpCosMilli(Deg2RadMilli(trip_data["pickup_lon"][i]))
           /\ Has("pickup_lat_sin") =>
                  my_data_table["pickup_lat_sin"][i]
                      = NpSinMilli(Deg2RadMilli(trip_data["pickup_lat"][i]))
           /\ Has("pickup_lat_cos") =>
                  my_data_table["pickup_lat_cos"][i]
                      = NpCosMilli(Deg2RadMilli(trip_data["pickup_lat"][i]))
           /\ Has("pickup_x_scaled") =>
                  my_data_table["pickup_x_scaled"][i] = ScaledInput(i, 1)
           /\ Has("pickup_y_scaled") =>
                  my_data_table["pickup_y_scaled"][i] = ScaledInput(i, 2)

\* Witness of C9: a completed batch of three trips with three different
\* projected pickups, so that any other order of the rows would show.
C9_Witness ==
    /\ pc = "done"
    /\ NumRows(my_data_table) = 3
    /\ Cardinality({my_data_table["pickup_x_meters"][i] : i \in 1..3}) = 3
    /\ Cardinality({my_data_table["pickup_x_scaled"][i] : i \in 1..3}) = 3
    /\ my_data_table["trip_id"] = <<1, 2, 3>>

----------------------------------------------------------------------------
(* Properties of the run *)

\* Every stage has executed at most once.
StagesAtMostOnce == \A s \in Stages : ran[s] <= 1

\* The scaler has started only with the projected columns written for
\* every row.
ScalerAfterProjector ==
    ran["scale"] = 1 =>
        /\ ran["project"] = 1
        /\ Has("pickup_x_meters") /\ Len(my_data_table["pickup_x_meters"]) = NumRows(trip_data)
        /\ Has("pickup_y_meters") /\ Len(my_data_table["pickup_y_meters"]) = NumRows(trip_data)

\* Only the scaler has read columns another stage wrote, and those are the
\* projector's.
OnlyScalerReadsAnotherStage ==
    \A s, w \in Stages :
        s # w /\ reads[s] \cap StageWrites(w) # {} => s = "scale" /\ w = "project"

Completed ==
    /\ pc = "done"
    /\ \A s \in Stages : ran[s] = 1
    /\ DOMAIN final_output = FinalColumns

\* The part of C10 about the order of the stages, in every state of every run.
C10_StageOrder ==
    StagesAtMostOnce /\ ScalerAfterProjector /\ OnlyScalerReadsAnotherStage

\* C10: in every run each stage executes once, the scaler after the
\* projector, no other stage reads what another stage wrote, and the run
\* eventually completes with the final output built.
C10_EveryRunCompletes == [](C10_StageOrder) /\ <>Completed

====
